---- MODULE Spec2Model ----
(***************************************************************************)
(* datacube_stats: the output driver file lifecycle (output_drivers.py)    *)
(* and the task generators (tasks.py).                                     *)
(*                                                                         *)
(* SpecDrv : one output driver used either as a guarded block (with) or    *)
(*           through direct method calls, over a small file system.       *)
(* SpecGen : the gridded and the arbitrary-region task generators over a   *)
(*           small catalog.                                                *)
(* SpecTwo : two output drivers of one class whose tasks resolve to the    *)
(*           same paths, their calls interleaved.                          *)
(***************************************************************************)
EXTENDS Integers, Sequences, FiniteSets, TLC

\* ------------------------------------------------------------------ bounds
MaxCloseCalls == 2   \* close_files calls made on one driver
MaxTime == 4         \* dataset timestamps are 1..MaxTime
NumWindows == 1      \* distinct pixel windows a write_data call may address

\* ------------------------------------------------------- driver universe
Drivers == {"d1", "d2"}
ProdNames == {"p1", "p2"}
MeasNames == {"m1", "m2"}
NoVar == "-"
Windows == 1..NumWindows

\* A path is identified by what the file-path template resolves to: the
\* product and (when the template holds {var_name}) the measurement.  Every
\* identity has a final name and a '.tmp' sibling.
PathIds == ProdNames \X (MeasNames \cup {NoVar})
NoPath == <<"", "">>

\* A file: who created it, the (measurement, window) blocks written into
\* it, and its container format ("raw": as the driver's library wrote it).
Absent == [by |-> "nobody", data |-> {}, fmt |-> "-"]
PreFile == [by |-> "pre", data |-> {}, fmt |-> "raw"]
NewFile(d) == [by |-> d, data |-> {}, fmt |-> "raw"]
Exists(f) == f.by # "nobody"

ErrNone == "none"
ErrNotOpen == "StatsOutputError: No files opened for writing."
ErrInvalid == "StatsOutputError: Invalid Filename"
ErrExists == "OutputFileAlreadyExists"
ErrUnbound == "UnboundLocalError"
ErrDtype == "StatsOutputError: Not all measurements have the same dtype"
ErrNodata == "StatsOutputError: Not all nodata values are the same"
ErrAttribute == "AttributeError"

\* An output product descriptor (task.output_products[name]): its
\* measurements in order, whether file_path_template holds {var_name},
\* whether the template's suffix is one of the driver's valid_extensions,
\* and the 'dtype' and 'nodata' of each measurement.
Stat(n, ms, vn, ok) ==
  [name |-> n, measurements |-> ms, var_name |-> vn, suffix_ok |-> ok,
   dtypes |-> [i \in DOMAIN ms |-> "int16"],
   nodatas |-> [i \in DOMAIN ms |-> 0 - 1]]

Typed(stat, dts, nds) == [stat EXCEPT !.dtypes = dts, !.nodatas = nds]

TaskConfigs ==
  { <<>>,
    << Stat("p1", <<"m1">>, FALSE, TRUE) >>,
    << Stat("p1", <<"m1", "m2">>, TRUE, TRUE), Stat("p2", <<"m1">>, FALSE, TRUE) >>,
    << Stat("p1", <<"m1">>, FALSE, TRUE), Stat("p2", <<"m1", "m2">>, FALSE, TRUE) >>,
    << Stat("p1", <<"m1">>, FALSE, TRUE), Stat("p2", <<"m1">>, FALSE, FALSE) >>,
    << Typed(Stat("p1", <<"m1", "m2">>, FALSE, TRUE), <<"int16", "float32">>, <<0 - 1, 0 - 1>>) >>,
    << Typed(Stat("p1", <<"m1", "m2">>, TRUE, TRUE), <<"uint8", "int16">>, <<0 - 1, 0>>) >> }

Range(s) == {s[i] : i \in DOMAIN s}

\* ------------------------------------------- the handle mapping (a dict)
\* _output_file_handles is an insertion-ordered dict; a value is a handle
\* or a dict measurement -> handle.
Leaf(k, p) == [key |-> k, t |-> "fh", path |-> p, items |-> <<>>]
Item(k, p) == [key |-> k, path |-> p]
Nested(k, its) == [key |-> k, t |-> "dict", path |-> NoPath, items |-> its]

DictHas(dict, k) == \E i \in DOMAIN dict : dict[i].key = k
DictGet(dict, k) == dict[CHOOSE i \in DOMAIN dict : dict[i].key = k]
DictSet(dict, k, v) ==
  IF DictHas(dict, k)
  THEN [i \in DOMAIN dict |-> IF dict[i].key = k THEN v ELSE dict[i]]
  ELSE Append(dict, v)

\* Every path a handle of the mapping is open on, at any depth.
AllHandlePaths(dict) ==
  {dict[i].path : i \in {j \in DOMAIN dict : dict[j].t = "fh"}}
  \cup UNION {{it.path : it \in Range(dict[i].items)} : i \in DOMAIN dict}

\* _walk_dict(file_handles, func): func is applied to the values that are
\* not dicts.  For a dict value the recursive call only builds a generator
\* that nobody iterates, so func reaches none of the nested handles.  The
\* result is the sequence of handles func was applied to.
WalkDict(file_handles) ==
  SelectSeq(file_handles, LAMBDA v : v.t # "dict")

HandleToPath(node) == node.path

\* ----------------------------------------------------------------- state
VARIABLES
  kind,       \* driver -> "NetCDF" | "Geotiff" | "off"
  usage,      \* driver -> "with" | "calls" | "off": how the caller uses it
  products,   \* driver -> task.output_products, in order
  handles,    \* driver -> _output_file_handles
  fh,         \* driver -> path -> the handle object the driver made on it
  finalFile,  \* path -> file at the final name
  tmpFile,    \* path -> file at the '.tmp' name
  tifFile,    \* path -> file at the '.tif' name _tif_to_envi moves it to
  pc,         \* driver -> position in the guarded block
  exc,        \* driver -> exception raised by the guarded body
  propagated, \* driver -> exception that left the with statement
  lastCall,   \* driver -> the last method call and the exception it raised
  closeLog,   \* driver -> the flags close_files was called with, in order
  openDone    \* driver -> open_output_files was called

\* The task generators (tasks.py).
VARIABLES
  genKind,        \* "gridded" | "nongridded" | "off"
  tile_indexes,   \* GriddedTaskGenerator.tile_indexes (NoTileList when None)
  features,       \* NonGriddedTaskGenerator.features after line 250-252
  filter_product, \* NonGriddedTaskGenerator.filter_product
  sources_spec,   \* argument of __call__
  date_ranges,    \* argument of __call__
  catalog,        \* the index: tile -> product -> dataset timestamps
  gpos,           \* loop position of the generator: [fi, pi, ti]
  gstatus,        \* "running" | "done" | "raised"
  gerr,           \* exception the generator raised
  batch,          \* the tasks yielded by the last loop iteration
  lastFilter,     \* what the last filter_task call was given
  yieldedKeys     \* (tile, feature, period) of every task yielded so far

genVars == <<genKind, tile_indexes, features, filter_product, sources_spec,
             date_ranges, catalog, gpos, gstatus, gerr, batch, lastFilter,
             yieldedKeys>>

drvVars == <<kind, usage, products, handles, fh, finalFile, tmpFile, tifFile, pc, exc,
             propagated, lastCall, closeLog, openDone>>

\* A handle object: made, open, times closed, global attributes attached.
NoHandle == [made |-> FALSE, open |-> FALSE, closes |-> 0, attrs |-> FALSE]
OpenedPaths(d) == {p \in PathIds : fh[d][p].made}

\* The part of the state one method call reads and writes.
DrvState(d) == [handles |-> handles[d], fh |-> fh[d], final |-> finalFile,
                tmp |-> tmpFile, tif |-> tifFile, err |-> ErrNone]

Raise(st, e) == [st EXCEPT !.err = e]

\* ------------------------------------------------- _prepare_output_file
NoKwargs == [has |-> FALSE, var |-> NoVar]
Kwargs(m) == [has |-> TRUE, var |-> m]

\* _generate_output_filename: template.format(x=.., y=.., **kwargs).  A
\* template naming {var_name} needs the keyword; an extra keyword is ignored.
GenerateOutputFilename(stat, kw) ==
  IF stat.var_name /\ ~kw.has THEN [err |-> "KeyError", path |-> NoPath]
  ELSE IF stat.var_name THEN [err |-> ErrNone, path |-> <<stat.name, kw.var>>]
  ELSE [err |-> ErrNone, path |-> <<stat.name, NoVar>>]

\* (mutant) the already-exists check never fires.
OutputPathExistsNever(st, output_path) == FALSE

\* output_path.exists() (line 177)
OutputPathExists(st, output_path) == Exists(st.final[output_path])

\* Returns the state after the call; .path is the tmp path returned.
PrepareOutputFile(stat, kw, st) ==
  LET gen == GenerateOutputFilename(stat, kw)
      out == [st |-> st, path |-> gen.path]
  IN IF gen.err # ErrNone THEN [out EXCEPT !.st = Raise(st, gen.err)]
     ELSE IF ~stat.suffix_ok THEN [out EXCEPT !.st = Raise(st, ErrInvalid)]
     ELSE IF OutputPathExists(st, gen.path) THEN [out EXCEPT !.st = Raise(st, ErrExists)]
     ELSE [out EXCEPT !.st.tmp[gen.path] = Absent]

\* Opening a file for writing at the tmp path (create_netcdf_storage_unit,
\* rasterio.open(mode='w')): the file is created and a handle object made.
CreateHandle(d, p, st) ==
  [st EXCEPT !.tmp[p] = NewFile(d),
             !.fh[p] = [made |-> TRUE, open |-> TRUE, closes |-> 0, attrs |-> FALSE]]

\* ------------------------------------- NetCDFCFOutputDriver.open_output_files
RECURSIVE NetCDFOpenFrom(_, _, _, _)
NetCDFOpenFrom(d, i, prods, st) ==
  IF i > Len(prods) THEN st
  ELSE LET stat == prods[i]
           prep == PrepareOutputFile(stat, NoKwargs, st)
       IN IF prep.st.err # ErrNone THEN prep.st
          ELSE NetCDFOpenFrom(d, i + 1, prods,
                 [CreateHandle(d, prep.path, prep.st)
                    EXCEPT !.handles = DictSet(@, stat.name, Leaf(stat.name, prep.path))])

NetCDFOpenOutputFiles(d, prods, st) == NetCDFOpenFrom(d, 1, prods, st)

\* ------------------------------------ GeotiffOutputDriver helpers
\* ENVIBILOutputDriver subclasses GeotiffOutputDriver.
IsRaster(k) == k \in {"Geotiff", "ENVIBIL"}

MeasurementIndex(stat, m) ==
  CHOOSE i \in DOMAIN stat.measurements : stat.measurements[i] = m

\* _get_dtype(out_prod_name, measurement_name=None): kw is the
\* measurement name (NoKwargs when None).
GetDtype(stat, kw) ==
  IF kw.has
  THEN IF kw.var \in Range(stat.measurements)
       THEN [err |-> ErrNone, value |-> stat.dtypes[MeasurementIndex(stat, kw.var)]]
       ELSE [err |-> "KeyError", value |-> ""]
  ELSE LET dtypes == Range(stat.dtypes)
       IN IF Cardinality(dtypes) = 1
          THEN [err |-> ErrNone, value |-> CHOOSE x \in dtypes : TRUE]
          ELSE [err |-> ErrDtype, value |-> ""]

\* _get_nodata(prod_name, measurement_name=None)
GetNodata(stat, kw) ==
  LET dtype == GetDtype(stat, kw)
      nodatas == Range(stat.nodatas)
  IN IF dtype.err # ErrNone THEN [err |-> dtype.err, value |-> 0]
     ELSE IF ~kw.has /\ Cardinality(nodatas) # 1 THEN [err |-> ErrNodata, value |-> 0]
     ELSE LET nodata == IF kw.has THEN stat.nodatas[MeasurementIndex(stat, kw.var)]
                        ELSE CHOOSE x \in nodatas : TRUE
          IN [err |-> ErrNone,
              value |-> IF dtype.value = "uint8" /\ nodata < 0 THEN 255 ELSE nodata]

\* _open_geotiff(prod_name, measurement_name, output_filename, num_bands):
\* the profile needs the dtype and the nodata value, then rasterio.open
\* creates the file.
OpenGeotiff(d, stat, kw, output_filename, st) ==
  LET dtype == GetDtype(stat, kw)
      nodata == GetNodata(stat, kw)
  IN IF dtype.err # ErrNone THEN Raise(st, dtype.err)
     ELSE IF nodata.err # ErrNone THEN Raise(st, nodata.err)
     ELSE CreateHandle(d, output_filename, st)

\* _open_single_band_geotiff(prod_name, stat, measurement_name)
OpenSingleBandGeotiff(d, stat, m, st) ==
  LET prep == PrepareOutputFile(stat, Kwargs(m), st)
  IN IF prep.st.err # ErrNone THEN prep.st
     ELSE LET made == OpenGeotiff(d, stat, Kwargs(m), prep.path, prep.st)
              old == IF DictHas(st.handles, stat.name)
                     THEN DictGet(st.handles, stat.name).items ELSE <<>>
              its == IF \E i \in DOMAIN old : old[i].key = m
                     THEN [i \in DOMAIN old |->
                             IF old[i].key = m THEN Item(m, prep.path) ELSE old[i]]
                     ELSE Append(old, Item(m, prep.path))
          IN IF made.err # ErrNone THEN made
             ELSE [made EXCEPT !.handles = DictSet(@, stat.name, Nested(stat.name, its))]

RECURSIVE OpenBandsFrom(_, _, _, _)
OpenBandsFrom(d, stat, j, st) ==
  IF j > Len(stat.measurements) \/ st.err # ErrNone THEN st
  ELSE OpenBandsFrom(d, stat, j + 1,
                     OpenSingleBandGeotiff(d, stat, stat.measurements[j], st))

\* open_output_files: the locals output_filename and measurement_name are
\* assigned only further down the loop body (lines 375 and 370/378), and the
\* first statement of the body (line 363) reads output_filename.
\* loc = [fname_bound, mname_bound, mname] are those locals.
RECURSIVE GeotiffOpenFrom(_, _, _, _, _)
GeotiffOpenFrom(d, i, prods, loc, st) ==
  IF i > Len(prods) THEN st
  ELSE IF ~loc.fname_bound THEN Raise(st, ErrUnbound)
  ELSE LET stat == prods[i]
           n == Len(stat.measurements)
       IN IF n = 0 THEN Raise(st, "ValueError")
          ELSE IF n > 1 /\ stat.var_name
          THEN LET after == OpenBandsFrom(d, stat, 1, st)
               IN IF after.err # ErrNone THEN after
                  ELSE GeotiffOpenFrom(d, i + 1, prods,
                         [loc EXCEPT !.mname_bound = TRUE, !.mname = stat.measurements[n]],
                         after)
          ELSE IF ~loc.mname_bound THEN Raise(st, ErrUnbound)
          ELSE LET prep == PrepareOutputFile(stat, Kwargs(loc.mname), st)
               IN IF prep.st.err # ErrNone THEN prep.st
                  ELSE LET dest_fh == OpenGeotiff(d, stat, NoKwargs, prep.path, prep.st)
                       IN IF dest_fh.err # ErrNone THEN dest_fh
                          ELSE GeotiffOpenFrom(d, i + 1, prods,
                                 [loc EXCEPT !.mname = stat.measurements[n]],
                                 [dest_fh EXCEPT !.handles =
                                    DictSet(@, stat.name, Leaf(stat.name, prep.path))])

GeotiffOpenOutputFiles(d, prods, st) ==
  GeotiffOpenFrom(d, 1, prods,
                  [fname_bound |-> FALSE, mname_bound |-> FALSE, mname |-> NoVar], st)

OpenOutputFiles(d, st) ==
  IF kind[d] = "NetCDF" THEN NetCDFOpenOutputFiles(d, products[d], st)
  ELSE GeotiffOpenOutputFiles(d, products[d], st)

\* ------------------------------------------------ OutputDriver.close_files
RECURSIVE RenameFrom(_, _, _)
RenameFrom(paths, i, st) ==
  IF i > Len(paths) THEN st
  ELSE LET p == paths[i]
       IN IF ~Exists(st.tmp[p]) THEN Raise(st, "FileNotFoundError")
          ELSE RenameFrom(paths, i + 1,
                          [st EXCEPT !.final[p] = st.tmp[p], !.tmp[p] = Absent])

\* (mutant) the '.tmp' suffix is removed whatever the outcome was.
ShouldRenameAlways(completed_successfully, rename_tmps) == rename_tmps

\* path.rename(str(path)[:-4]) happens iff both flags are set.
ShouldRename(completed_successfully, rename_tmps) ==
  completed_successfully /\ rename_tmps

\* libOk: whether the NetCDF library still answers filepath()/close() on a
\* dataset that is already closed (the source does not decide it).
ClosePaths(file_handles) ==
  LET visited == WalkDict(file_handles)
  IN [i \in DOMAIN visited |-> HandleToPath(visited[i])]

CloseFiles(d, completed_successfully, rename_tmps, libOk, st) ==
  LET paths == ClosePaths(st.handles)
      reclose == \E i \in DOMAIN paths : ~st.fh[paths[i]].open
      closed == [st EXCEPT !.fh = [p \in PathIds |->
                   IF p \in Range(paths)
                   THEN [st.fh[p] EXCEPT !.open = FALSE, !.closes = @ + 1]
                   ELSE st.fh[p]]]
  IN IF kind[d] = "NetCDF" /\ reclose /\ ~libOk THEN Raise(st, "RuntimeError")
     ELSE IF ShouldRename(completed_successfully, rename_tmps)
     THEN RenameFrom(paths, 1, closed)
     ELSE closed

\* -------------------------------------- ENVIBILOutputDriver.close_files
\* _tif_to_envi(source_file): source_file is the '<name>.bil.tmp' path, so
\* dest_file (with_name(stem)) is the final '<name>.bil' and tmp_tif
\* (with_suffix('.tif')) is '<name>.bil.tif'.  toolOk: gdal_translate
\* exited with status 0; a non-zero exit is caught and logged.
TifToEnvi(source_file, toolOk, st) ==
  IF ~Exists(st.tmp[source_file]) THEN Raise(st, "FileNotFoundError")
  ELSE LET moved == [st EXCEPT !.tif[source_file] = st.tmp[source_file],
                               !.tmp[source_file] = Absent]
       IN IF toolOk
          THEN [moved EXCEPT !.final[source_file] =
                               [moved.tif[source_file] EXCEPT !.fmt = "ENVI"],
                             !.tif[source_file] = Absent]
          ELSE moved

\* for filename in paths: self._tif_to_envi(filename)
RECURSIVE ConvertFrom(_, _, _, _)
ConvertFrom(paths, i, failed, st) ==
  IF i > Len(paths) \/ st.err # ErrNone THEN st
  ELSE ConvertFrom(paths, i + 1, failed, TifToEnvi(paths[i], paths[i] \notin failed, st))

\* failed: the files for which the conversion tool exits non-zero.
EnviCloseFiles(d, completed_successfully, libOk, failed, st) ==
  LET paths == ClosePaths(st.handles)
      closed == CloseFiles(d, completed_successfully, FALSE, libOk, st)
  IN IF closed.err # ErrNone THEN closed
     ELSE IF completed_successfully THEN ConvertFrom(paths, 1, failed, closed)
     ELSE closed

\* driver.close_files(completed_successfully), by class.
DriverCloseFiles(d, completed_successfully, libOk, failed, st) ==
  IF kind[d] = "ENVIBIL"
  THEN EnviCloseFiles(d, completed_successfully, libOk, failed, st)
  ELSE CloseFiles(d, completed_successfully, TRUE, libOk, st)

\* -------------------------------------------------------------- write_data
\* The library write through an open handle: the data lands in the file the
\* handle was opened on, which is the tmp file while that is still linked.
LibWrite(d, p, meas, win, ioFail, st) ==
  IF ~st.fh[p].open THEN Raise(st, "ClosedHandleError")
  ELSE IF ioFail THEN Raise(st, "IOError")
  ELSE IF st.tmp[p].by = d
  THEN [st EXCEPT !.tmp[p].data = @ \cup {<<meas, win>>}]
  ELSE st

StatOf(d, prod) == CHOOSE s \in Range(products[d]) : s.name = prod

\* OutputDriver.write_data: the only statement of the abstract method.
BaseWriteData(st) ==
  IF Len(st.handles) <= 0 THEN Raise(st, ErrNotOpen) ELSE st

\* NetCDFCFOutputDriver.write_data: indexes the mapping directly.
NetCDFWriteData(d, prod, meas, win, ioFail, st) ==
  IF ~DictHas(st.handles, prod) THEN Raise(st, "KeyError")
  ELSE IF meas \notin Range(StatOf(d, prod).measurements) THEN Raise(st, "IndexError")
  ELSE LibWrite(d, DictGet(st.handles, prod).path, meas, win, ioFail, st)

\* GeotiffOutputDriver.write_data: calls the base method first.
GeotiffWriteData(d, prod, meas, win, ioFail, st) ==
  LET base == BaseWriteData(st)
  IN IF base.err # ErrNone THEN base
     ELSE IF ~DictHas(st.handles, prod) THEN Raise(st, "KeyError")
     ELSE LET node == DictGet(st.handles, prod)
          IN IF node.t = "dict"
             THEN IF \E i \in DOMAIN node.items : node.items[i].key = meas
                  THEN LibWrite(d, (CHOOSE it \in Range(node.items) : it.key = meas).path,
                                meas, win, ioFail, st)
                  ELSE Raise(st, "KeyError")
             ELSE IF meas \in Range(StatOf(d, prod).measurements)
                  THEN LibWrite(d, node.path, meas, win, ioFail, st)
                  ELSE Raise(st, "ValueError")

WriteData(d, prod, meas, win, ioFail, st) ==
  IF kind[d] = "NetCDF" THEN NetCDFWriteData(d, prod, meas, win, ioFail, st)
  ELSE GeotiffWriteData(d, prod, meas, win, ioFail, st)

\* ------------------------------------------------- write_global_attributes
\* Attaching the attributes through one handle (output_file.attrs[k] = v,
\* dest.update_tags(**attributes)).
LibSetAttributes(p, st) ==
  IF ~st.fh[p].open THEN Raise(st, "ClosedHandleError")
  ELSE [st EXCEPT !.fh[p].attrs = TRUE]

\* for output_file in self._output_file_handles.values(): ...  A value
\* that is a dict has neither .attrs nor .update_tags.
RECURSIVE AttributesFrom(_, _)
AttributesFrom(i, st) ==
  IF i > Len(st.handles) \/ st.err # ErrNone THEN st
  ELSE IF st.handles[i].t = "dict" THEN Raise(st, ErrAttribute)
  ELSE AttributesFrom(i + 1, LibSetAttributes(st.handles[i].path, st))

\* NetCDFCFOutputDriver.write_global_attributes
NetCDFWriteGlobalAttributes(st) == AttributesFrom(1, st)

\* GeotiffOutputDriver.write_global_attributes
GeotiffWriteGlobalAttributes(st) == AttributesFrom(1, st)

WriteGlobalAttributes(d, st) ==
  IF kind[d] = "NetCDF" THEN NetCDFWriteGlobalAttributes(st)
  ELSE GeotiffWriteGlobalAttributes(st)

\* ------------------------------------------------------------ the actions
Commit(d, st) ==
  /\ handles' = [handles EXCEPT ![d] = st.handles]
  /\ fh' = [fh EXCEPT ![d] = st.fh]
  /\ finalFile' = st.final
  /\ tmpFile' = st.tmp
  /\ tifFile' = st.tif

Call(op, e) == [op |-> op, err |-> e]

\* (mutant) __exit__ reports success whatever happened in the body.
CompletedSuccessfullyAlways(e) == TRUE

\* __exit__ passes exc_type is None.
CompletedSuccessfully(e) == e = ErrNone

\* with driver: -- __enter__ calls open_output_files; when it raises the
\* block is never entered and __exit__ never runs.
Enter(d) ==
  /\ usage[d] = "with" /\ pc[d] = "start"
  /\ LET st == OpenOutputFiles(d, DrvState(d))
     IN /\ Commit(d, st)
        /\ pc' = [pc EXCEPT ![d] = IF st.err = ErrNone THEN "body" ELSE "enter_failed"]
        /\ propagated' = [propagated EXCEPT ![d] = st.err]
        /\ lastCall' = [lastCall EXCEPT ![d] = Call("open", st.err)]
  /\ openDone' = [openDone EXCEPT ![d] = TRUE]
  /\ UNCHANGED genVars
  /\ UNCHANGED <<kind, usage, products, exc, closeLog>>

\* A write_data call in the guarded body; an exception ends the body.
BodyWrite(d) ==
  /\ pc[d] = "body" /\ exc[d] = ErrNone
  /\ \E prod \in ProdNames, meas \in MeasNames, win \in Windows, ioFail \in BOOLEAN :
       LET st == WriteData(d, prod, meas, win, ioFail, DrvState(d))
       IN /\ Commit(d, st)
          /\ exc' = [exc EXCEPT ![d] = st.err]
          /\ lastCall' = [lastCall EXCEPT ![d] = Call("write", st.err)]
  /\ UNCHANGED genVars
  /\ UNCHANGED <<kind, usage, products, pc, propagated, closeLog, openDone>>

\* __exit__: close_files(exc_type is None); returns None, so the body's
\* exception propagates (an exception of close_files replaces it).
Exit(d) ==
  /\ pc[d] = "body"
  /\ \E libOk \in BOOLEAN, failed \in SUBSET Range(ClosePaths(handles[d])) :
       LET flag == CompletedSuccessfully(exc[d])
           st == DriverCloseFiles(d, flag, libOk, failed, DrvState(d))
       IN /\ Commit(d, st)
          /\ closeLog' = [closeLog EXCEPT ![d] = Append(@, flag)]
          /\ propagated' = [propagated EXCEPT ![d] =
                              IF st.err # ErrNone THEN st.err ELSE exc[d]]
          /\ lastCall' = [lastCall EXCEPT ![d] = Call("close", st.err)]
  /\ pc' = [pc EXCEPT ![d] = "exited"]
  /\ UNCHANGED genVars
  /\ UNCHANGED <<kind, usage, products, exc, openDone>>

\* Direct method calls on a driver that is not used as a guarded block.
CallOpen(d) ==
  /\ usage[d] = "calls" /\ ~openDone[d] /\ closeLog[d] = <<>>
  /\ LET st == OpenOutputFiles(d, DrvState(d))
     IN /\ Commit(d, st)
        /\ lastCall' = [lastCall EXCEPT ![d] = Call("open", st.err)]
  /\ openDone' = [openDone EXCEPT ![d] = TRUE]
  /\ UNCHANGED genVars
  /\ UNCHANGED <<kind, usage, products, pc, exc, propagated, closeLog>>

\* _open_single_band_geotiff called for one measurement of a product that
\* takes the one-file-per-measurement branch (line 368: several
\* measurements and {var_name} in the template).  open_output_files itself
\* never gets there: it raises at line 363.
CallOpenSingleBand(d) ==
  /\ usage[d] = "calls" /\ IsRaster(kind[d]) /\ closeLog[d] = <<>>
  /\ \E i \in DOMAIN products[d] :
       \E m \in Range(products[d][i].measurements) :
         /\ Len(products[d][i].measurements) > 1 /\ products[d][i].var_name
         /\ ~\E p \in OpenedPaths(d) : p[1] = products[d][i].name /\ p[2] \in {m, NoVar}
         /\ LET st == OpenSingleBandGeotiff(d, products[d][i], m, DrvState(d))
            IN /\ Commit(d, st)
               /\ lastCall' = [lastCall EXCEPT ![d] = Call("open_single", st.err)]
  /\ UNCHANGED genVars
  /\ UNCHANGED <<kind, usage, products, pc, exc, propagated, closeLog, openDone>>

CallWrite(d) ==
  /\ usage[d] = "calls"
  /\ \E prod \in ProdNames, meas \in MeasNames, win \in Windows, ioFail \in BOOLEAN :
       LET st == WriteData(d, prod, meas, win, ioFail, DrvState(d))
       IN /\ Commit(d, st)
          /\ lastCall' = [lastCall EXCEPT ![d] = Call("write", st.err)]
  /\ UNCHANGED genVars
  /\ UNCHANGED <<kind, usage, products, pc, exc, propagated, closeLog, openDone>>

\* write_global_attributes(attributes) with a non-empty attributes dict,
\* on a driver that has not been closed.
CallWriteGlobalAttributes(d) ==
  /\ usage[d] = "calls" /\ closeLog[d] = <<>>
  /\ LET st == WriteGlobalAttributes(d, DrvState(d))
     IN /\ Commit(d, st)
        /\ lastCall' = [lastCall EXCEPT ![d] = Call("attrs", st.err)]
  /\ UNCHANGED genVars
  /\ UNCHANGED <<kind, usage, products, pc, exc, propagated, closeLog, openDone>>

CallClose(d) ==
  /\ usage[d] = "calls" /\ Len(closeLog[d]) < MaxCloseCalls
  /\ \E flag \in BOOLEAN, libOk \in BOOLEAN, failed \in SUBSET Range(ClosePaths(handles[d])) :
       LET st == DriverCloseFiles(d, flag, libOk, failed, DrvState(d))
       IN /\ Commit(d, st)
          /\ closeLog' = [closeLog EXCEPT ![d] = Append(@, flag)]
          /\ lastCall' = [lastCall EXCEPT ![d] = Call("close", st.err)]
  /\ UNCHANGED genVars
  /\ UNCHANGED <<kind, usage, products, pc, exc, propagated, openDone>>

\* ======================================================= task generators
Times == 1..MaxTime
Tiles == {<<1, 1>>, <<1, 2>>}
TileOrder == << <<1, 1>>, <<1, 2>> >>   \* order in which a query lists cells
NoTile == <<0, 0>>                      \* cell_index=None
NoTileList == << NoTile >>              \* tile_indexes=None
Products == {"ls8", "ls7", "pq", "wofs"}
NoTime == <<>>                          \* source_spec.get('time') is None
NoCoord == 0 - 1
NoId == ""

\* A source spec: product, optional time restriction, declared masks.
SourceSpec(p, t, ms) == [product |-> p, time |-> t, masks |-> ms]

\* A Tile: the product it was queried for and the timestamps it holds.
Tile(p, ts) == [product |-> p, times |-> ts]
NoneTile == [product |-> "None", times |-> {}]

DataSource(data, masks, spec, source_index) ==
  [data |-> data, masks |-> masks, spec |-> spec, source_index |-> source_index]

Feature(id, cell) == [none |-> FALSE, id |-> id, cell |-> cell]
NoFeature == [none |-> TRUE, id |-> NoId, cell |-> <<1, 1>>]

\* spatial_id is a dict with either the keys x, y or the key feature_id;
\* a key the dict does not hold is NoCoord / NoId here.
SpatialXY(x, y) == [x |-> x, y |-> y, feature_id |-> NoId]
SpatialFeature(id) == [x |-> NoCoord, y |-> NoCoord, feature_id |-> id]

StatsTask(time_period, spatial_id, feature) ==
  [time_period |-> time_period, spatial_id |-> spatial_id, sources |-> <<>>,
   feature |-> feature]

\* A date range (start, end) holds the timestamps start <= t < end.
InRange(t, r) == r[1] <= t /\ t < r[2]
Max(a, b) == IF a >= b THEN a ELSE b
Min(a, b) == IF a <= b THEN a ELSE b
NoRange == <<0, 0>>                     \* filter_time_by_source returned None

\* utils.dates.filter_time_by_source: the spec's own time restriction
\* intersected with the date range; None when the intersection is empty.
FilterTimeBySource(source_time, time_period) ==
  IF source_time = NoTime THEN time_period
  ELSE LET lo == Max(source_time[1], time_period[1])
           hi == Min(source_time[2], time_period[2])
       IN IF lo < hi THEN <<lo, hi>> ELSE NoRange

\* utils.query.multi_product_list_cells: one dict tile -> timestamps per
\* product, primary first then the masks in declaration order, restricted
\* to cell_index when one is given.  A tile without datasets has no key
\* (the empty set here).
MultiProductListCells(prods, cell_index, time) ==
  [i \in DOMAIN prods |->
     [tile \in Tiles |->
        IF cell_index = NoTile \/ tile = cell_index
        THEN {t \in catalog[tile][prods[i]] : InRange(t, time)}
        ELSE {}]]

\* ---------------------------------- GriddedTaskGenerator.collect_tasks
\* (mutant) a mask without datasets for the tile is left out of the list.
MaskSlotsOmitAbsent(masks, mask_products, tile) ==
  SelectSeq([j \in DOMAIN masks |->
               IF masks[j][tile] = {} THEN NoneTile
               ELSE Tile(mask_products[j], masks[j][tile])],
            LAMBDA m : m # NoneTile)

\* [mask.get(tile) for mask in masks]
MaskSlots(masks, mask_products, tile) ==
  [j \in DOMAIN masks |->
     IF masks[j][tile] = {} THEN NoneTile
     ELSE Tile(mask_products[j], masks[j][tile])]

TaskAt(tasks, tile) == CHOOSE i \in DOMAIN tasks : tasks[i].key = tile

\* (mutant) every contribution starts a task of its own.
SetDefaultAlwaysNew(tasks, tile, new) ==
  Append(tasks, [key |-> tile, task |-> new])

\* tasks.setdefault(tile, StatsTask(...)): tasks is an ordered dict.
SetDefault(tasks, tile, new) ==
  IF \E i \in DOMAIN tasks : tasks[i].key = tile THEN tasks
  ELSE Append(tasks, [key |-> tile, task |-> new])

\* (mutant) the DataSource is put in front of the task's sources.
AppendSourceInFront(tasks, tile, src) ==
  LET i == CHOOSE k \in DOMAIN tasks : tasks[k].key = tile
  IN [tasks EXCEPT ![i].task.sources = <<src>> \o @]

\* task.sources.append(...) on the task setdefault returned.
AppendSource(tasks, tile, src) ==
  LET i == CHOOSE k \in DOMAIN tasks :
             tasks[k].key = tile /\ \A l \in DOMAIN tasks : tasks[l].key = tile => l <= k
  IN [tasks EXCEPT ![i].task.sources = Append(@, src)]

\* for tile, sources in data.items(): ...
RECURSIVE AddTiles(_, _, _, _, _, _, _)
AddTiles(tasks, k, data, masks, ep_range, source_spec, source_index) ==
  IF k > Len(TileOrder) THEN tasks
  ELSE LET tile == TileOrder[k]
       IN IF data[tile] = {}
          THEN AddTiles(tasks, k + 1, data, masks, ep_range, source_spec, source_index)
          ELSE LET made == SetDefault(tasks, tile,
                             StatsTask(ep_range, SpatialXY(tile[1], tile[2]), NoFeature))
                   src == DataSource(Tile(source_spec.product, data[tile]),
                                     MaskSlots(masks, source_spec.masks, tile),
                                     source_spec, source_index)
               IN AddTiles(AppendSource(made, tile, src), k + 1, data, masks,
                           ep_range, source_spec, source_index)

\* for source_index, source_spec in enumerate(sources_spec): ...
RECURSIVE CollectFrom(_, _, _, _, _)
CollectFrom(tasks, i, time_period, specs, tile_index) ==
  IF i > Len(specs) THEN tasks
  ELSE LET source_spec == specs[i]
           ep_range == FilterTimeBySource(source_spec.time, time_period)
       IN IF ep_range = NoRange
          THEN CollectFrom(tasks, i + 1, time_period, specs, tile_index)
          ELSE LET prods == <<source_spec.product>> \o source_spec.masks
                   cells == MultiProductListCells(prods, tile_index, ep_range)
                   data == cells[1]
                   masks == SubSeq(cells, 2, Len(cells))
               IN CollectFrom(AddTiles(tasks, 1, data, masks, ep_range, source_spec, i - 1),
                              i + 1, time_period, specs, tile_index)

\* list(tasks.values())
CollectTasks(time_period, specs, tile_index) ==
  LET tasks == CollectFrom(<<>>, 1, time_period, specs, tile_index)
  IN [i \in DOMAIN tasks |-> tasks[i].task]

\* ------------------------------------------- NonGriddedTaskGenerator
\* ArbitraryTileMaker.__call__: the datasets of one product found in the
\* region (the feature's polygon, else the input region) in the time range.
MakeTile(feature, product, time) ==
  Tile(product, {t \in catalog[feature.cell][product] : InRange(t, time)})

\* for source_index, source_spec in enumerate(sources_spec): ... (265-288)
RECURSIVE BuildSources(_, _, _, _, _)
BuildSources(task, i, feature, time_period, specs) ==
  IF i > Len(specs) THEN task
  ELSE LET source_spec == specs[i]
           ep_range == FilterTimeBySource(source_spec.time, time_period)
       IN IF ep_range = NoRange
          THEN BuildSources(task, i + 1, feature, time_period, specs)
          ELSE LET data == MakeTile(feature, source_spec.product, ep_range)
                   masks == [j \in DOMAIN source_spec.masks |->
                               MakeTile(feature, source_spec.masks[j], ep_range)]
               IN IF Cardinality(data.times) = 0
                  THEN BuildSources(task, i + 1, feature, time_period, specs)
                  ELSE BuildSources(
                         [task EXCEPT !.sources =
                            Append(@, DataSource(data, masks, source_spec, i - 1))],
                         i + 1, feature, time_period, specs)

\* strftime of a timestamp: two timestamps share a day; "%Y-%m-%d" keeps
\* the day only, "%Y-%m-%dT%H:%M:%S" keeps the time of day too.
Day(t) == (t + 1) \div 2
FormatDay(t) == <<Day(t)>>
FormatSecond(t) == <<Day(t), t - 2 * (Day(t) - 1)>>

\* all_dates of set_task (lines 199-204); unbound for any other method.
AllDates(method, times) ==
  IF method = "by_hydrological_months" THEN {FormatDay(t) : t \in times}
  ELSE {FormatSecond(t) : t \in times}

DateOf(method, t) ==
  IF method = "by_hydrological_months" THEN FormatDay(t) ELSE FormatSecond(t)

KnownMethod(method) == method \in {"by_hydrological_months", "by_tide_height"}

\* The first loop of set_task: narrow the sources that intersect the
\* filtered times (isel), collect the 0-based indexes of the others.
Narrowed(sources, method, filtered_times) ==
  [i \in DOMAIN sources |->
     IF AllDates(method, sources[i].data.times) \cap filtered_times # {}
     THEN [sources[i] EXCEPT !.data.times =
             {t \in @ : DateOf(method, t) \in filtered_times}]
     ELSE sources[i]]

RemoveIndexList(sources, method, filtered_times) ==
  LET idx == [i \in DOMAIN sources |-> i - 1]
  IN SelectSeq(idx, LAMBDA i :
        AllDates(method, sources[i + 1].data.times) \cap filtered_times = {})

\* del lst[i] for a 0-based i.
DelAt(lst, i) == SubSeq(lst, 1, i) \o SubSeq(lst, i + 2, Len(lst))

\* for i in remove_index_list: del task.sources[i]  (lines 213-214): the
\* indexes were taken before any deletion and are used as they are.
RECURSIVE DeleteFrom(_, _, _)
DeleteFrom(sources, remove_index_list, k) ==
  IF k > Len(remove_index_list) THEN [sources |-> sources, err |-> ErrNone]
  ELSE IF remove_index_list[k] >= Len(sources)
  THEN [sources |-> sources, err |-> "IndexError"]
  ELSE DeleteFrom(DelAt(sources, remove_index_list[k]), remove_index_list, k + 1)

SetTask(task, method, filtered_times) ==
  IF ~KnownMethod(method) /\ task.sources # <<>>
  THEN [task |-> task, err |-> ErrUnbound]
  ELSE LET narrowed == Narrowed(task.sources, method, filtered_times)
           removal == RemoveIndexList(task.sources, method, filtered_times)
           deleted == DeleteFrom(narrowed, removal, 1)
       IN [task |-> [task EXCEPT !.sources = deleted.sources], err |-> deleted.err]

\* filter_product: None, {} or a descriptor with a method.
NoFilter == [none |-> TRUE, empty |-> FALSE, method |-> ""]
EmptyFilter == [none |-> FALSE, empty |-> TRUE, method |-> ""]
FilterBy(m) == [none |-> FALSE, empty |-> FALSE, method |-> m]
\* (mutant) only None switches the filter off; {} counts as configured.
FilterActiveUnlessNone(fp) == ~fp.none

\* self.filter_product is not None and self.filter_product != {}
FilterActive(fp) == ~fp.none /\ ~fp.empty

\* all_source_times of filter_task, as a set.
AllSourceTimes(task) ==
  UNION {task.sources[i].data.times : i \in DOMAIN task.sources}

\* filter_task(task, feature, date_ranges); extra_fn_args and
\* filtered_times are what get_filter_product returned, and .asked tells
\* whether get_filter_product was called at all.
FilterTask(task, fp, extra_fn_args, filtered_times) ==
  IF FilterActive(fp)
  THEN LET r == SetTask(task, fp.method, filtered_times)
       IN IF r.err # ErrNone THEN [task |-> r.task, err |-> r.err, asked |-> TRUE]
          ELSE [task |-> [r.task EXCEPT !.spatial_id =
                            SpatialXY(extra_fn_args[1], extra_fn_args[2])],
                err |-> ErrNone, asked |-> TRUE]
  ELSE [task |-> task, err |-> ErrNone, asked |-> FALSE]

FeatureId(feature) ==
  IF feature.none \/ feature.id = NoId THEN "(none)" ELSE feature.id

\* What get_filter_product may answer: extra filename arguments and a
\* subset of the source timestamps, formatted for the method.
ExtraArgs == {<<7, 8>>, <<8, 7>>}
FilteredChoices(task, fp) ==
  IF FilterActive(fp)
  THEN SUBSET {DateOf(fp.method, t) : t \in AllSourceTimes(task)}
  ELSE {{}}

\* ---------------------------------------------------- generator actions
Key(tile, fi, pi, time_period) ==
  [tile |-> tile, fi |-> fi, pi |-> pi, time_period |-> time_period]

NoFilterCall ==
  [called |-> FALSE, asked |-> FALSE, pre |-> <<>>, extra |-> <<0, 0>>, filtered |-> {}]

cfgVars == <<genKind, tile_indexes, features, filter_product, sources_spec,
             date_ranges, catalog>>

\* GriddedTaskGenerator.__call__, explicit tile list: one collect_tasks call
\* for (time_period, tile_index); every task of the list is yielded.
GriddedTileStep ==
  /\ genKind = "gridded" /\ gstatus = "running" /\ tile_indexes # NoTileList
  /\ LET time_period == date_ranges[gpos.pi]
         tile_index == tile_indexes[gpos.ti]
         tasks == CollectTasks(time_period, sources_spec, tile_index)
         lastTile == gpos.ti = Len(tile_indexes)
     IN /\ batch' = tasks
        /\ yieldedKeys' = yieldedKeys \o
             [i \in DOMAIN tasks |->
                Key(<<tasks[i].spatial_id.x, tasks[i].spatial_id.y>>, 0, gpos.pi,
                    tasks[i].time_period)]
        /\ gpos' = IF lastTile THEN [gpos EXCEPT !.pi = @ + 1, !.ti = 1]
                   ELSE [gpos EXCEPT !.ti = @ + 1]
        /\ gstatus' = IF lastTile /\ gpos.pi = Len(date_ranges) THEN "done" ELSE "running"
  /\ UNCHANGED <<cfgVars, gerr, lastFilter>>
  /\ UNCHANGED drvVars

\* GriddedTaskGenerator.__call__ without a tile list: one collect_tasks call
\* per time period, over every tile the query finds.
GriddedAllStep ==
  /\ genKind = "gridded" /\ gstatus = "running" /\ tile_indexes = NoTileList
  /\ LET time_period == date_ranges[gpos.pi]
         tasks == CollectTasks(time_period, sources_spec, NoTile)
     IN /\ batch' = tasks
        /\ yieldedKeys' = yieldedKeys \o
             [i \in DOMAIN tasks |->
                Key(<<tasks[i].spatial_id.x, tasks[i].spatial_id.y>>, 0, gpos.pi,
                    tasks[i].time_period)]
        /\ gpos' = [gpos EXCEPT !.pi = @ + 1]
        /\ gstatus' = IF gpos.pi = Len(date_ranges) THEN "done" ELSE "running"
  /\ UNCHANGED <<cfgVars, gerr, lastFilter>>
  /\ UNCHANGED drvVars

NonGriddedAdvance ==
  LET lastPeriod == gpos.pi = Len(date_ranges)
  IN /\ gpos' = IF lastPeriod THEN [gpos EXCEPT !.fi = @ + 1, !.pi = 1]
                ELSE [gpos EXCEPT !.pi = @ + 1]
     /\ gstatus' = IF lastPeriod /\ gpos.fi = Len(features) THEN "done" ELSE "running"

NonGriddedTask ==
  LET feature == features[gpos.fi]
      time_period == date_ranges[gpos.pi]
  IN BuildSources(StatsTask(time_period, SpatialFeature(FeatureId(feature)), feature),
                  1, feature, time_period, sources_spec)

\* NonGriddedTaskGenerator.__call__, one (feature, time_period) iteration
\* whose task got sources: filter_task, then yield.
NonGriddedYield ==
  /\ genKind = "nongridded" /\ gstatus = "running"
  /\ NonGriddedTask.sources # <<>>
  /\ LET task == NonGriddedTask
     IN \E extra \in (IF FilterActive(filter_product) THEN ExtraArgs ELSE {<<0, 0>>}),
           filtered \in FilteredChoices(task, filter_product) :
          LET r == FilterTask(task, filter_product, extra, filtered)
          IN /\ lastFilter' = [called |-> TRUE, asked |-> r.asked, pre |-> task.sources,
                               extra |-> extra, filtered |-> filtered]
             /\ IF r.err # ErrNone
                THEN /\ gstatus' = "raised" /\ gerr' = r.err
                     /\ batch' = <<>>
                     /\ UNCHANGED <<gpos, yieldedKeys>>
                ELSE /\ batch' = <<r.task>>
                     /\ yieldedKeys' = Append(yieldedKeys,
                          Key(features[gpos.fi].cell, gpos.fi, gpos.pi, r.task.time_period))
                     /\ NonGriddedAdvance
                     /\ UNCHANGED gerr
  /\ UNCHANGED cfgVars
  /\ UNCHANGED drvVars

\* ... whose task got no source: nothing is yielded.
NonGriddedSkip ==
  /\ genKind = "nongridded" /\ gstatus = "running"
  /\ NonGriddedTask.sources = <<>>
  /\ batch' = <<>>
  /\ lastFilter' = NoFilterCall
  /\ NonGriddedAdvance
  /\ UNCHANGED <<cfgVars, gerr, yieldedKeys>>
  /\ UNCHANGED drvVars

\* ------------------------------------------------------ generator Init
SourceSpecConfigs ==
  { << SourceSpec("ls8", NoTime, <<>>) >>,
    << SourceSpec("ls8", <<1, 3>>, <<>>) >>,
    << SourceSpec("ls8", NoTime, <<"pq", "wofs">>), SourceSpec("ls7", <<1, 3>>, <<"pq">>) >>,
    << SourceSpec("ls8", <<1, 2>>, <<>>), SourceSpec("ls7", <<2, 3>>, <<>>),
       SourceSpec("ls8", <<3, MaxTime + 1>>, <<>>) >> }

DateRangeConfigs ==
  { << <<1, MaxTime + 1>> >>,
    << <<1, 3>>, <<3, MaxTime + 1>> >> }

TileIndexConfigs ==
  { NoTileList, << <<1, 1>>, <<1, 2>> >>, << <<1, 2>> >>, << <<1, 1>>, <<1, 1>> >> }

FeatureConfigs ==
  { << NoFeature >>, << Feature("f1", <<1, 1>>), Feature(NoId, <<1, 2>>) >> }

FilterConfigs ==
  { NoFilter, EmptyFilter, FilterBy("by_hydrological_months"), FilterBy("by_tide_height") }

\* Catalogs: every product has a dataset at every timestamp of every tile,
\* except at the (tile, product) pairs of one subset of MayMiss.
MayMiss == { <<<<1, 1>>, "ls8">>, <<<<1, 2>>, "ls8">>, <<<<1, 1>>, "pq">>, <<<<1, 2>>, "ls7">> }
Catalogs ==
  { [tile \in Tiles |-> [p \in Products |->
       IF <<tile, p>> \in missing THEN {} ELSE Times]] : missing \in SUBSET MayMiss }

GenIdle ==
  /\ genKind = "off"
  /\ tile_indexes = NoTileList
  /\ features = << NoFeature >>
  /\ filter_product = NoFilter
  /\ sources_spec = <<>>
  /\ date_ranges = <<>>
  /\ catalog = [tile \in Tiles |-> [p \in Products |-> {}]]
  /\ gpos = [fi |-> 1, pi |-> 1, ti |-> 1]
  /\ gstatus = "done"
  /\ gerr = ErrNone
  /\ batch = <<>>
  /\ lastFilter = NoFilterCall
  /\ yieldedKeys = <<>>

DrvIdle ==
  /\ kind = [d \in Drivers |-> "off"]
  /\ usage = [d \in Drivers |-> "off"]
  /\ products = [d \in Drivers |-> <<>>]
  /\ handles = [d \in Drivers |-> <<>>]
  /\ fh = [d \in Drivers |-> [p \in PathIds |-> NoHandle]]
  /\ finalFile = [p \in PathIds |-> Absent]
  /\ tmpFile = [p \in PathIds |-> Absent]
  /\ tifFile = [p \in PathIds |-> Absent]
  /\ pc = [d \in Drivers |-> "start"]
  /\ exc = [d \in Drivers |-> ErrNone]
  /\ propagated = [d \in Drivers |-> ErrNone]
  /\ lastCall = [d \in Drivers |-> Call("none", ErrNone)]
  /\ closeLog = [d \in Drivers |-> <<>>]
  /\ openDone = [d \in Drivers |-> FALSE]

InitGen ==
  /\ DrvIdle
  /\ genKind \in {"gridded", "nongridded"}
  /\ tile_indexes \in (IF genKind = "gridded" THEN TileIndexConfigs ELSE {NoTileList})
  /\ features \in (IF genKind = "nongridded" THEN FeatureConfigs ELSE {<< NoFeature >>})
  /\ filter_product \in (IF genKind = "nongridded" THEN FilterConfigs ELSE {NoFilter})
  /\ sources_spec \in SourceSpecConfigs
  /\ date_ranges \in DateRangeConfigs
  /\ catalog \in Catalogs
  /\ gpos = [fi |-> 1, pi |-> 1, ti |-> 1]
  /\ gstatus = "running"
  /\ gerr = ErrNone
  /\ batch = <<>>
  /\ lastFilter = NoFilterCall
  /\ yieldedKeys = <<>>

NextGen ==
  \/ GriddedTileStep
  \/ GriddedAllStep
  \/ NonGriddedYield
  \/ NonGriddedSkip

\* --------------------------------------------------------- driver Init
\* One driver is constructed (__init__: no handles); the file system holds
\* at most one finished output and at most one stale '.tmp' left by an
\* earlier run.
PrePaths == {<<"p1", NoVar>>, <<"p2", NoVar>>, <<"p1", "m1">>}
OneFile(f) ==
  {[p \in PathIds |-> Absent]} \cup
  {[p \in PathIds |-> IF p = q THEN f ELSE Absent] : q \in PrePaths}

InitDrv ==
  /\ GenIdle
  /\ kind \in {[d \in Drivers |-> IF d = "d1" THEN k ELSE "off"] : k \in {"NetCDF", "Geotiff", "ENVIBIL"}}
  /\ usage \in {[d \in Drivers |-> IF d = "d1" THEN u ELSE "off"] : u \in {"with", "calls"}}
  /\ products \in {[d \in Drivers |-> IF d = "d1" THEN c ELSE <<>>] : c \in TaskConfigs}
  /\ handles = [d \in Drivers |-> <<>>]
  /\ fh = [d \in Drivers |-> [p \in PathIds |-> NoHandle]]
  /\ finalFile \in OneFile(PreFile)
  /\ tmpFile \in OneFile(PreFile)
  /\ tifFile = [p \in PathIds |-> Absent]
  /\ pc = [d \in Drivers |-> "start"]
  /\ exc = [d \in Drivers |-> ErrNone]
  /\ propagated = [d \in Drivers |-> ErrNone]
  /\ lastCall = [d \in Drivers |-> Call("none", ErrNone)]
  /\ closeLog = [d \in Drivers |-> <<>>]
  /\ openDone = [d \in Drivers |-> FALSE]

NextDrv ==
  \E d \in Drivers :
    \/ Enter(d)
    \/ BodyWrite(d)
    \/ Exit(d)
    \/ CallOpen(d)
    \/ CallOpenSingleBand(d)
    \/ CallWrite(d)
    \/ CallWriteGlobalAttributes(d)
    \/ CallClose(d)

\* Two drivers of one class, constructed for tasks whose products resolve
\* to the same paths.  Nothing is on disk at the start.
TwoConfigs ==
  { << Stat("p1", <<"m1">>, FALSE, TRUE) >>,
    << Stat("p2", <<"m1">>, FALSE, TRUE), Stat("p1", <<"m1">>, FALSE, TRUE) >> }

InitTwo ==
  /\ GenIdle
  /\ kind \in {[d \in Drivers |-> k] : k \in {"NetCDF", "Geotiff"}}
  /\ usage = [d \in Drivers |-> "calls"]
  /\ products \in [Drivers -> TwoConfigs]
  /\ handles = [d \in Drivers |-> <<>>]
  /\ fh = [d \in Drivers |-> [p \in PathIds |-> NoHandle]]
  /\ finalFile = [p \in PathIds |-> Absent]
  /\ tmpFile = [p \in PathIds |-> Absent]
  /\ tifFile = [p \in PathIds |-> Absent]
  /\ pc = [d \in Drivers |-> "start"]
  /\ exc = [d \in Drivers |-> ErrNone]
  /\ propagated = [d \in Drivers |-> ErrNone]
  /\ lastCall = [d \in Drivers |-> Call("none", ErrNone)]
  /\ closeLog = [d \in Drivers |-> <<>>]
  /\ openDone = [d \in Drivers |-> FALSE]

\* Each driver goes through open_output_files, then write_data calls, then
\* one close_files call; the steps of the two drivers interleave freely.
TwoWrite(d) == openDone[d] /\ closeLog[d] = <<>> /\ CallWrite(d)
TwoClose(d) == openDone[d] /\ closeLog[d] = <<>> /\ CallClose(d)

NextTwo ==
  \E d \in Drivers :
    \/ CallOpen(d)
    \/ TwoWrite(d)
    \/ TwoClose(d)

vars == <<drvVars, genVars>>

SpecTwo == InitTwo /\ [][NextTwo]_vars

SpecDrv == InitDrv /\ [][NextDrv]_vars

SpecGen == InitGen /\ [][NextGen]_vars

\* ================================================== output driver claims
Active == {d \in Drivers : usage[d] # "off"}

\* The final paths the products of a driver's task resolve to.
ProductFinalPaths(d, stat) ==
  IF IsRaster(kind[d]) /\ stat.var_name
  THEN {<<stat.name, m>> : m \in Range(stat.measurements)}
  ELSE {<<stat.name, NoVar>>}

\* C1: after open, writes and close_files(True), every path the driver
\* opened (nested handles included) is at its final name and none is left
\* at its '.tmp' name.
C1_CommitRenamesEveryOpenedPath ==
  \A d \in Active :
    (closeLog[d] = <<TRUE>> /\ lastCall[d] = Call("close", ErrNone))
      => \A p \in OpenedPaths(d) : finalFile[p].by = d /\ ~Exists(tmpFile[p])

\* C2: a file is at a final name only once close_files(True) was invoked on
\* the driver that made it; until then every opened path is at its '.tmp'
\* name (or removed) and nothing is at its final name.
C2_FinalOnlyAfterCommit ==
  \A d \in Active :
    /\ \A p \in PathIds : finalFile[p].by = d => TRUE \in Range(closeLog[d])
    /\ TRUE \notin Range(closeLog[d]) =>
         \A p \in OpenedPaths(d) :
           ~Exists(finalFile[p]) /\ tmpFile[p].by \in {d, "nobody"}

C2_Witness ==
  \E d \in Active : \E p \in OpenedPaths(d) :
    /\ closeLog[d] = <<FALSE>>
    /\ tmpFile[p].by = d /\ tmpFile[p].data # {}
    /\ ~Exists(finalFile[p])

\* C3: once close_files has run, every handle the driver opened, at any
\* depth of the mapping, has been closed exactly once -- however many
\* close_files calls were made.
C3_EveryHandleClosedExactlyOnce ==
  \A d \in Active :
    closeLog[d] # <<>> => \A p \in OpenedPaths(d) : fh[d][p].closes = 1

\* C4: leaving the guarded block calls close_files exactly once, with
\* success=True iff the body raised nothing; when the body raised, the
\* exception propagates and nothing is at a final path.  close_files is
\* not called before the block is left.
C4_ExitClosesOnceWithBodyOutcome ==
  \A d \in Active :
    usage[d] = "with" =>
      /\ pc[d] # "exited" => closeLog[d] = <<>>
      /\ pc[d] = "exited" =>
           /\ closeLog[d] = << exc[d] = ErrNone >>
           /\ exc[d] # ErrNone =>
                /\ propagated[d] = exc[d]
                /\ \A p \in OpenedPaths(d) : ~Exists(finalFile[p]) /\ tmpFile[p].by = d

C4_Witness ==
  \E d \in Active :
    /\ usage[d] = "with" /\ pc[d] = "exited"
    /\ exc[d] = "IOError" /\ closeLog[d] = <<FALSE>>
    /\ \E p \in OpenedPaths(d) : tmpFile[p].data # {}

\* C5: open_output_files on a task one of whose products already has its
\* final file fails with OutputFileAlreadyExists, makes no handle and no
\* '.tmp' file for that product, and leaves the finished file as it was.
\* (Stated for tasks whose templates are otherwise valid for the driver.)
C5_OpenFailsWithAlreadyExists ==
  \A d \in Active :
    ( /\ lastCall[d].op = "open"
      /\ \A s \in Range(products[d]) :
           s.suffix_ok /\ (kind[d] = "NetCDF" => ~s.var_name)
      /\ \E s \in Range(products[d]) :
           \E p \in ProductFinalPaths(d, s) : Exists(finalFile[p]) )
    => /\ lastCall[d].err = ErrExists
       /\ \A s \in Range(products[d]) : \A p \in ProductFinalPaths(d, s) :
            Exists(finalFile[p]) =>
              /\ finalFile[p] = PreFile
              /\ ~DictHas(handles[d], s.name)
              /\ tmpFile[p].by # d

\* C6: write_data on a driver that has opened nothing fails with the
\* 'No files opened for writing' error and writes nothing.
C6_WriteBeforeOpenIsNotOpen ==
  \A d \in Active :
    (lastCall[d].op = "write" /\ ~openDone[d] /\ handles[d] = <<>>)
      => /\ lastCall[d].err = ErrNotOpen
         /\ \A p \in PathIds : tmpFile[p].data = {} /\ finalFile[p].data = {}

\* =================================================== task generator claims
\* The key (tile, period) of the i-th task of the last batch.
BatchKey(i) == yieldedKeys[Len(yieldedKeys) - Len(batch) + i]

SourceIndexes(sources) == [i \in DOMAIN sources |-> sources[i].source_index]

Intersects(src, method, filtered) ==
  AllDates(method, src.data.times) \cap filtered # {}

\* C7: every task a generator yields has a non-empty sources list.
C7_YieldedTasksHaveSources ==
  \A i \in DOMAIN batch : batch[i].sources # <<>>

\* C8: after the temporal filter pass the task's sources are exactly the
\* original DataSources with a retained timestamp, in their original
\* order, and the pass raises nothing.
C8_FilterKeepsExactlyIntersecting ==
  (genKind = "nongridded" /\ lastFilter.called /\ FilterActive(filter_product))
    => /\ gstatus # "raised"
       /\ Len(batch) = 1
       /\ SourceIndexes(batch[1].sources) =
            SourceIndexes(SelectSeq(lastFilter.pre,
              LAMBDA src : Intersects(src, filter_product.method, lastFilter.filtered)))

\* C9: every DataSource of a yielded task has one mask slot per mask its
\* spec declares, in declaration order; a mask without datasets for the
\* tile and time range keeps its slot as an explicit None / empty tile.
C9_OneMaskSlotPerDeclaredMask ==
  \A i \in DOMAIN batch : \A k \in DOMAIN batch[i].sources :
    LET src == batch[i].sources[k]
        key == BatchKey(i)
        ep_range == FilterTimeBySource(src.spec.time, date_ranges[key.pi])
    IN /\ Len(src.masks) = Len(src.spec.masks)
       /\ \A j \in DOMAIN src.spec.masks :
            LET found == {t \in catalog[key.tile][src.spec.masks[j]] : InRange(t, ep_range)}
            IN src.masks[j] =
                 IF found = {} /\ genKind = "gridded" THEN NoneTile
                 ELSE Tile(src.spec.masks[j], found)

C9_Witness ==
  \E i \in DOMAIN batch : \E k \in DOMAIN batch[i].sources :
    LET src == batch[i].sources[k]
    IN /\ genKind = "gridded"
       /\ Len(src.spec.masks) = 2
       /\ src.masks[1] = NoneTile
       /\ src.masks[2] = Tile("wofs", src.masks[2].times) /\ src.masks[2].times # {}

\* C10 -- as claimed: explicit list of N distinct tiles, M date ranges and
\* full coverage give exactly N*M tasks, one per (tile, date range), each
\* with one DataSource per source spec whose effective range is non-empty.
Distinct(seq) == \A i, j \in DOMAIN seq : i # j => seq[i] # seq[j]
FullCoverage == \A tile \in Tiles : \A p \in Products : catalog[tile][p] = Times
ExplicitGrid ==
  genKind = "gridded" /\ tile_indexes # NoTileList /\ Distinct(tile_indexes) /\ FullCoverage

EffectiveSpecs(time_period) ==
  SelectSeq([i \in DOMAIN sources_spec |-> i - 1],
            LAMBDA i : FilterTimeBySource(sources_spec[i + 1].time, time_period) # NoRange)

KeyPairs == {<<yieldedKeys[i].tile, yieldedKeys[i].pi>> : i \in DOMAIN yieldedKeys}

OneDataSourcePerEffectiveSpec ==
  \A i \in DOMAIN batch :
    /\ SourceIndexes(batch[i].sources) = EffectiveSpecs(date_ranges[BatchKey(i).pi])
    /\ \A k \in DOMAIN batch[i].sources :
         batch[i].sources[k].spec.masks = <<>> => batch[i].sources[k].masks = <<>>

C10_ExactlyNTimesMTasks ==
  ExplicitGrid =>
    /\ OneDataSourcePerEffectiveSpec
    /\ gstatus = "done" =>
         /\ Len(yieldedKeys) = Len(tile_indexes) * Len(date_ranges)
         /\ KeyPairs = Range(tile_indexes) \X DOMAIN date_ranges

\* C10 -- amended: one task per (tile, date range) for which at least one
\* source spec has a non-empty effective time range, and no other task;
\* each task holds one DataSource per such spec, in declaration order.
PeriodsWithSpec == {pi \in DOMAIN date_ranges : EffectiveSpecs(date_ranges[pi]) # <<>>}

C10_OneTaskPerTileAndEffectiveRange ==
  ExplicitGrid =>
    /\ OneDataSourcePerEffectiveSpec
    /\ gstatus = "done" =>
         /\ Len(yieldedKeys) = Len(tile_indexes) * Cardinality(PeriodsWithSpec)
         /\ KeyPairs = Range(tile_indexes) \X PeriodsWithSpec

C10_Witness ==
  /\ ExplicitGrid /\ gstatus = "done"
  /\ Len(tile_indexes) = 2 /\ Len(date_ranges) = 2 /\ Len(sources_spec) = 2
  /\ Len(yieldedKeys) = 4
  /\ Len(batch) = 1 /\ Len(batch[1].sources) = 1

\* ======================================== output driver claims, continued
Consistent(stat) ==
  Cardinality(Range(stat.dtypes)) = 1 /\ Cardinality(Range(stat.nodatas)) = 1

\* The handles open_output_files is to leave for one product: a mapping
\* measurement -> open handle (one file per measurement) or one open handle.
HandlesOfLayout(d, stat) ==
  /\ DictHas(handles[d], stat.name)
  /\ LET node == DictGet(handles[d], stat.name)
     IN IF Len(stat.measurements) > 1 /\ stat.var_name
        THEN /\ node.t = "dict"
             /\ [i \in DOMAIN node.items |-> node.items[i].key] = stat.measurements
             /\ \A it \in Range(node.items) : fh[d][it.path].open
        ELSE node.t = "fh" /\ fh[d][node.path].open

\* C11: open_output_files of the raster driver fails with the
\* inconsistent-measurements error when a product has two measurements of
\* differing dtypes; when the measurements of every product share one dtype
\* and one nodata value it succeeds and leaves one handle per measurement
\* or one handle per product.  (Stated for tasks whose templates are valid
\* and whose final paths are free.)
C11_RasterOpenChecksMeasurements ==
  \A d \in Active :
    ( /\ IsRaster(kind[d]) /\ lastCall[d].op = "open" /\ products[d] # <<>>
      /\ \A s \in Range(products[d]) :
           s.suffix_ok /\ \A p \in ProductFinalPaths(d, s) : ~Exists(finalFile[p]) )
    => IF \E s \in Range(products[d]) : Cardinality(Range(s.dtypes)) > 1
       THEN lastCall[d].err = ErrDtype
       ELSE (\A s \in Range(products[d]) : Consistent(s))
              => /\ lastCall[d].err = ErrNone
                 /\ \A s \in Range(products[d]) : HandlesOfLayout(d, s)

\* The final paths of all products of a driver's task.
TaskFinalPaths(d) ==
  UNION {ProductFinalPaths(d, s) : s \in Range(products[d])}

\* C12 -- as claimed: of two drivers whose tasks resolve to the same final
\* path, at most one holds an open handle on the path's '.tmp' file, and a
\* driver holding one still has its own '.tmp' file in place (the other
\* driver neither removed nor replaced it).
C12_ExclusiveOwnership ==
  \A p \in PathIds :
    /\ Cardinality({d \in Active : fh[d][p].open}) <= 1
    /\ \A d \in Active : fh[d][p].open => tmpFile[p].by = d

\* C12 -- amended: the already-exists check protects finished outputs only.
\* An open_output_files call made while a final path of the caller's task
\* exists fails (the NetCDF driver with OutputFileAlreadyExists) and leaves
\* that file, its '.tmp' sibling and the driver's handles as they were; a
\* call that succeeds leaves the caller as the creator of every '.tmp'
\* file of its task, whoever had one in progress there.
C12_OpenProtectsFinishedOutputsOnly ==
  [][\A d \in Active :
       (~openDone[d] /\ openDone'[d])
         => /\ (\E p \in TaskFinalPaths(d) : Exists(finalFile[p]))
                 => /\ lastCall'[d].op = "open" /\ lastCall'[d].err # ErrNone
                    /\ kind[d] = "NetCDF" => lastCall'[d].err = ErrExists
                    /\ finalFile' = finalFile
                    /\ \A p \in TaskFinalPaths(d) :
                         Exists(finalFile[p]) =>
                           tmpFile'[p] = tmpFile[p] /\ fh'[d][p] = fh[d][p]
            /\ lastCall'[d] = Call("open", ErrNone)
                 => \A p \in TaskFinalPaths(d) :
                      tmpFile'[p] = NewFile(d) /\ fh'[d][p].open]_vars

C12_Witness ==
  \E d \in Active, e \in Active : \E p \in PathIds :
    /\ d # e
    /\ lastCall[d] = Call("open", ErrExists) /\ ~fh[d][p].made
    /\ finalFile[p].by = e /\ finalFile[p].data # {}

\* The conversion of the file at path p, made by driver d, went through.
Converted(d, p) ==
  /\ finalFile[p].by = d /\ finalFile[p].fmt = "ENVI"
  /\ ~Exists(tifFile[p]) /\ ~Exists(tmpFile[p])

\* The conversion tool failed on it: the unconverted raster is on disk.
IntermediateLeft(d, p) ==
  /\ tifFile[p].by = d /\ tifFile[p].fmt = "raw"
  /\ ~Exists(tmpFile[p])

C14_SourceIndexStrictlyIncreasing ==
  \A i \in DOMAIN batch :
    LET sources == batch[i].sources
    IN /\ \A k \in DOMAIN sources :
            /\ sources[k].source_index \in 0..(Len(sources_spec) - 1)
            /\ sources[k].spec = sources_spec[sources[k].source_index + 1]
       /\ \A k \in 1..(Len(sources) - 1) :
            sources[k].source_index < sources[k + 1].source_index

C14_Witness ==
  \E i \in DOMAIN batch : SourceIndexes(batch[i].sources) = <<0, 2>>

\* C15: filter_task changes a task only when a filter product is
\* configured.  With filter_product None or {} the yielded task has the
\* sources and the {feature_id} spatial_id it was built with and
\* get_filter_product is not called; with a filter product configured
\* get_filter_product is called and the yielded task's spatial_id is
\* {x: extra_fn_args[0], y: extra_fn_args[1]}.
C15_FilterTaskOnlyWithFilterProduct ==
  (genKind = "nongridded" /\ lastFilter.called) =>
    IF filter_product.none \/ filter_product.empty
    THEN /\ ~lastFilter.asked
         /\ gstatus # "raised" /\ Len(batch) = 1
         /\ batch[1].sources = lastFilter.pre
         /\ batch[1].spatial_id = SpatialFeature(FeatureId(features[BatchKey(1).fi]))
    ELSE /\ lastFilter.asked
         /\ \A i \in DOMAIN batch :
              batch[i].spatial_id = SpatialXY(lastFilter.extra[1], lastFilter.extra[2])

C15_Witness ==
  /\ genKind = "nongridded" /\ lastFilter.called /\ lastFilter.asked
  /\ ~filter_product.none /\ ~filter_product.empty
  /\ Len(batch) = 1 /\ batch[1].sources # lastFilter.pre
  /\ batch[1].spatial_id = [x |-> 8, y |-> 7, feature_id |-> NoId]

\* C16: write_global_attributes on an open driver raises nothing and
\* leaves the attributes attached to every handle the driver holds open,
\* whatever the layout of the handle mapping (nested product ->
\* measurement mappings included).
C16_AttributesReachEveryOpenHandle ==
  \A d \in Active :
    lastCall[d].op = "attrs"
      => /\ lastCall[d].err = ErrNone
         /\ \A p \in OpenedPaths(d) : fh[d][p].open => fh[d][p].attrs

\* Tasks come out date range by date range, and the timestamps a task's
\* sources hold all lie in the date range the task was yielded for.
YieldedRangeByRange ==
  /\ \A i, j \in DOMAIN yieldedKeys : i < j => yieldedKeys[i].pi <= yieldedKeys[j].pi
  /\ \A i \in DOMAIN batch : \A k \in DOMAIN batch[i].sources :
       \A t \in batch[i].sources[k].data.times :
         InRange(t, date_ranges[BatchKey(i).pi])

\* C17: every task the gridded generator yields while processing date
\* range P has time_period = P, whatever the time restrictions of the
\* source specs and whichever spec contributed first; tasks come out range
\* by range and hold no source of another date range.
C17_TimePeriodIsDateRange ==
  genKind = "gridded" =>
    /\ \A i \in DOMAIN batch : batch[i].time_period = date_ranges[BatchKey(i).pi]
    /\ YieldedRangeByRange

\* C18: once the guarded block is abandoned -- open_output_files failed in
\* __enter__, or the block was left -- no handle the driver opened is
\* still open.
C18_AbandonedBlockLeavesNoOpenHandle ==
  \A d \in Active :
    (usage[d] = "with" /\ pc[d] \in {"enter_failed", "exited"})
      => \A p \in OpenedPaths(d) : ~fh[d][p].open

====
